---- MODULE Spec2Model ----
(***************************************************************************)
(* Model of server/game_manager.py (class Manager): the player registry,   *)
(* the matchmaking queues, the session table, the per-session tick worker  *)
(* and the shutdown coordinator.  The code takes no locks, so every        *)
(* statement that touches shared state is one step of the thread that      *)
(* executes it; the value of a thread's pc is the source line it is about  *)
(* to execute ("j94" = join_queue, line 94).  Statements that touch only   *)
(* locals or the configuration are part of the step before them.           *)
(***************************************************************************)
EXTENDS Integers, Sequences, FiniteSets, TLC

\* ---------------------------------------------------------------- bounds
NumPlayers == 2      \* client ids handed out by the webserver: 1..NumPlayers
NumCallers == 2      \* concurrent caller contexts (webserver threads)
MaxCalls == 5        \* calls made in a run with concurrent callers
MaxSeqCalls == 7     \* calls made in a run with one caller at a time
MaxStopCalls == 5    \* calls made in a run where safe_stop races with admissions
MaxGames == 2        \* sessions ever created (cap on the count(1) generator)

\* ------------------------------------------------------- program constants
PLAYERS_PER_GAME == 2

GAMES == {"duel"}                  \* configured queue types (settings)
QueueArgs == GAMES \cup {"bad"}    \* queue names a caller may pass
EVENTS == {"move"}                 \* what game.get_events() returns
EventArgs == EVENTS \cup {"bad"}   \* event names a caller may pass

Ids == 1..NumPlayers
Gids == 1..MaxGames
\* Player dicts.  The dict registered under client id p is object p; a dict
\* that was deleted from (or overwritten in) the registry while a frame still
\* refers to it lives on as one of the stale objects, at most one per thread.
StaleObjs == (NumPlayers + 1)..(NumPlayers + NumCallers + MaxGames)
Objs == Ids \cup StaleObjs
Callers == {<<"c", k>> : k \in 1..NumCallers}
Workers == {<<"w", g>> : g \in Gids}
Threads == Callers \cup Workers
C(k) == <<"c", k>>
W(g) == <<"w", g>>

None == 0            \* Python None for gameid / a missing dict entry
NoQueue == "none"    \* Python None for player["queue"]
Absent == <<0>>      \* self.queues has no such key (0 is no client id)
NoMsg == [to |-> 0, kind |-> "none", gid |-> 0]
NewPlayer == [alive |-> TRUE, gameid |-> None, queue |-> NoQueue]

Taxonomy == {"ServerStopping", "AlreadyRegistered", "NotRegistered",
             "InvalidQueue", "InGame", "NotInGame", "InvalidEvent"}

VARIABLES
  ncalls,    \* calls the webserver has made so far
  running,   \* self.running
  players,   \* self.players: client id -> player dict (object id), None if no key
  obj,       \* the player dicts: object id -> [alive, gameid, queue]
  queues,    \* self.queues: queue name -> deque of client ids, or Absent
  games,     \* self.games: gid -> "absent" | "empty" | "game" | "thread"
  gameid,    \* self.gameid: the next value of count(1)
  gameover,  \* game.gameover of the game object with id gid
  tick,      \* the worker's Event `tick` (set or not)
  timers,    \* armed Timer threads of the worker that have not fired yet
  th,        \* every thread's frame: callers and session workers
  msg        \* the message handed to webserver.send_message in this step

vars == <<ncalls, running, players, obj, queues, games, gameid, gameover,
          tick, timers, th, msg>>

shared == <<ncalls, running, players, obj, queues, games, gameid, gameover, tick, timers>>

\* A thread frame.  pc: the line about to run; op: the public operation;
\* cid, q, ev: its arguments; player / gid / plist / i: the locals `player`,
\* `gid` (or `game`), `players` (or the .copy() being iterated) and the loop
\* position; dpc, dcid, dplayer: the frame of a nested disconnect() call;
\* flag: "an exception is propagating" in the finally block; res: the
\* exception a call died of, when it is none of the Manager's own errors.
Fresh ==
  [pc |-> "idle", op |-> "none", cid |-> 0, q |-> NoQueue, ev |-> "none",
   player |-> 0, gid |-> 0, plist |-> <<>>, i |-> 0,
   dpc |-> "none", dcid |-> 0, dplayer |-> 0, flag |-> FALSE, res |-> "none"]

NoThread == [Fresh EXCEPT !.pc = "nothread"]

Init ==
  /\ running = TRUE
  /\ ncalls = 0
  /\ players = [p \in Ids |-> None]
  /\ obj = [o \in Objs |-> NewPlayer]
  /\ queues = [q \in GAMES |-> Absent]
  /\ games = [g \in Gids |-> "absent"]
  /\ gameid = 1
  /\ gameover = [g \in Gids |-> FALSE]
  /\ tick = [g \in Gids |-> FALSE]
  /\ timers = [g \in Gids |-> 0]
  /\ th = [t \in Threads |-> IF t \in Callers THEN Fresh ELSE NoThread]
  /\ msg = NoMsg

\* ------------------------------------------------------------- helpers
Registered(p) == players[p] # None
Terminated == {"done", "dead"}

\* A call ends: it returns ("ok") or raises `outcome`.  After a return or
\* one of the Manager's own errors the caller context is free again; any
\* other exception is a fault of the Manager, which the frame keeps.
Done(r, outcome) ==
  IF outcome \in Taxonomy \cup {"ok"} THEN Fresh
  ELSE [Fresh EXCEPT !.pc = "fault", !.op = r.op, !.res = outcome]

\* Thread t moves to frame r2.
NewTh(t, r2) == [th EXCEPT ![t] = r2]
Step(t, r2) == th' = NewTh(t, r2)

Holds(frames, o) ==
  \E t \in Threads : frames[t].player = o \/ frames[t].dplayer = o

\* Player dicts that neither the registry `reg` nor a frame of `frames`
\* refers to are unreachable: their content is dropped.
Sweep(ob, reg, frames) ==
  [o \in Objs |->
     IF (o \in Ids /\ reg[o] # None) \/ Holds(frames, o) THEN ob[o] ELSE NewPlayer]

\* The dict registered under p leaves the registry (del, line 64, or the
\* assignment of line 35 over an existing key): the frames that hold it keep
\* it, as a stale object.
Evict(ob, frames, p) ==
  IF ~Holds(frames, p) THEN [obj |-> [ob EXCEPT ![p] = NewPlayer], th |-> frames]
  ELSE LET s == CHOOSE x \in StaleObjs :
                  /\ ~Holds(frames, x)
                  /\ \A y \in StaleObjs : ~Holds(frames, y) => x <= y
       IN [obj |-> [ob EXCEPT ![s] = ob[p], ![p] = NewPlayer],
           th |-> [t \in Threads |->
                     [frames[t] EXCEPT !.player = IF @ = p THEN s ELSE @,
                                       !.dplayer = IF @ = p THEN s ELSE @]]]

\* The webserver hands a new call to the first free caller context.
FirstFree(c) == \A k \in 1..NumCallers : k < c[2] => th[C(k)].pc # "idle"

\* deque.remove(x): remove the first occurrence of x
RECURSIVE RemoveFirst(_, _)
RemoveFirst(s, x) ==
  IF s = <<>> THEN <<>>
  ELSE IF Head(s) = x THEN Tail(s)
  ELSE <<Head(s)>> \o RemoveFirst(Tail(s), x)

InSeq(s, x) == \E k \in 1..Len(s) : s[k] = x

\* self.queues[name].remove(client_id) with name read from the player dict:
\* "KeyError" when name is None or no key of self.queues, "ValueError" when
\* the id is not in the deque, otherwise "ok".
RemoveOutcome(name, id) ==
  IF name = NoQueue THEN "KeyError"
  ELSE IF queues[name] = Absent THEN "KeyError"
  ELSE IF ~InSeq(queues[name], id) THEN "ValueError"
  ELSE "ok"

\* The keys of self.games / self.players as .copy() yields them (line 223,
\* line 230), taken in ascending order.
RECURSIVE GameKeys(_)
GameKeys(lo) ==
  IF lo > MaxGames THEN <<>>
  ELSE (IF games[lo] = "absent" THEN <<>> ELSE <<lo>>) \o GameKeys(lo + 1)

RECURSIVE PlayerKeys(_)
PlayerKeys(lo) ==
  IF lo > NumPlayers THEN <<>>
  ELSE (IF players[lo] = None THEN <<>> ELSE <<lo>>) \o PlayerKeys(lo + 1)

\* ------------------------------------------------ nested-call continuations
\* safe_stop, lines 230-235: the next pid of self.players.copy()
StopNextPlayer(r) ==
  IF r.i + 1 > Len(r.plist) THEN Done(r, "ok")
  ELSE [r EXCEPT !.pc = "s231", !.i = r.i + 1]

\* safe_stop, lines 223-228: the next gid of self.games.copy(), then line 230
StopNextGame(r) ==
  IF r.i + 1 > Len(r.plist) THEN [r EXCEPT !.pc = "s230", !.i = 0, !.plist = <<>>]
  ELSE [r EXCEPT !.pc = "s224", !.i = r.i + 1]

\* game_handler, lines 190-198: the next pid of the roster, then line 198
FinallyNext(r) ==
  IF r.i + 1 > Len(r.plist) THEN [r EXCEPT !.pc = "w198", !.i = 0]
  ELSE [r EXCEPT !.pc = "w191", !.i = r.i + 1]

\* game_handler enters its finally block (line 186); `raising` when an
\* exception escaped the except block and is re-raised after the cleanup.
Finally(r, raising) == [r EXCEPT !.pc = "w191", !.i = 1, !.flag = raising]

\* game_handler enters its except block (lines 178-184): from here to the
\* end of the thread the session is a faulted one (res holds the exception).
Except(r) == [r EXCEPT !.pc = "w183", !.i = 1, !.res = "Exception"]

\* An exception leaves the finally block of game_handler: nothing more of
\* it runs, the thread ends with the exception ("raise", then "dead").
Die(r) == [r EXCEPT !.pc = "raise", !.i = 0, !.flag = FALSE]

\* disconnect() returns ("ok") or raises, back in the frame that called it:
\* a caller (the call ends), safe_stop line 233 (the exception is logged,
\* line 234) or the finally block of game_handler, line 195 (not caught).
DiscEnd(r, outcome) ==
  LET base == [r EXCEPT !.dpc = "none", !.dcid = 0, !.dplayer = 0] IN
  CASE r.pc = "disconnect" -> Done(base, outcome)
    [] r.pc = "s233" -> StopNextPlayer(base)
    [] r.pc = "w195" -> IF outcome = "ok" THEN FinallyNext(base) ELSE Die(base)

\* ------------------------------------------------------------ the callers
\* join_queue calls that may still take a session id (keeps gameid bounded)
JoinsInFlight ==
  Cardinality({c \in Callers : th[c].op = "join_queue" /\ th[c].gid = 0})

\* The frame of a call at its first statement.
Entry(op, id, q) ==
  CASE op = "connect" -> [Fresh EXCEPT !.pc = "c29", !.op = op, !.cid = id]
    [] op = "disconnect" -> [Fresh EXCEPT !.pc = "disconnect", !.op = op, !.cid = id,
                                          !.dpc = "d51", !.dcid = id]
    [] op = "join_queue" -> [Fresh EXCEPT !.pc = "j75", !.op = op, !.cid = id, !.q = q]
    [] op = "send_event" -> [Fresh EXCEPT !.pc = "e202", !.op = op, !.cid = id]
    [] op = "safe_stop" -> [Fresh EXCEPT !.pc = "s222", !.op = op]

\* The webserver calls an operation of `Ops` on the free caller context c,
\* for a client id and a queue name of its choice, at most `cap` times in
\* a run.  safe_stop is called once.
Call(c, Ops, cap) ==
  /\ th[c].pc = "idle"
  /\ FirstFree(c)
  /\ \E op \in Ops, id \in Ids, q \in QueueArgs :
       /\ op = "join_queue" => gameid + JoinsInFlight <= MaxGames
       /\ op = "safe_stop" => running
       /\ Step(c, Entry(op, IF op = "safe_stop" THEN 0 ELSE id,
                           IF op = "join_queue" THEN q ELSE NoQueue))
  /\ msg' = NoMsg
  /\ ncalls < cap
  /\ ncalls' = ncalls + 1
  /\ UNCHANGED <<running, players, obj, queues, games, gameid, gameover, tick, timers>>

\* An exception that is none of the Manager's errors reached the webserver.
Recover(c) ==
  /\ th[c].pc = "fault"
  /\ Step(c, Fresh)
  /\ msg' = NoMsg
  /\ UNCHANGED shared

\* Manager.connect, lines 26-43.  The token (line 40) is a fresh random
\* string with no effect on control flow; it is not modelled.
Connect(c) ==
  LET r == th[c]
      p == r.cid
  IN
  /\ msg' = NoMsg
  /\ \/ /\ r.pc = "c29"
        /\ Step(c, IF ~running THEN Done(r, "ServerStopping") ELSE [r EXCEPT !.pc = "c32"])
        /\ UNCHANGED <<ncalls, running, players, obj, queues, games, gameid, gameover, tick, timers>>
     \/ /\ r.pc = "c32"
        /\ Step(c, IF Registered(p) THEN Done(r, "AlreadyRegistered")
                   ELSE [r EXCEPT !.pc = "c35"])
        /\ UNCHANGED <<ncalls, running, players, obj, queues, games, gameid, gameover, tick, timers>>
     \/ /\ r.pc = "c35"
        /\ LET frames == NewTh(c, [r EXCEPT !.pc = "c43"])
               e == IF Registered(p) THEN Evict(obj, frames, p)
                    ELSE [obj |-> obj, th |-> frames]
           IN /\ players' = [players EXCEPT ![p] = p]
              /\ th' = e.th
              /\ obj' = [e.obj EXCEPT ![p] = NewPlayer]
        /\ UNCHANGED <<ncalls, running, queues, games, gameid, gameover, tick, timers>>
     \/ /\ r.pc = "c43"
        /\ Step(c, IF Registered(p) THEN Done(r, "ok") ELSE Done(r, "KeyError"))
        /\ UNCHANGED <<ncalls, running, players, obj, queues, games, gameid, gameover, tick, timers>>

\* Line 62: the player is removed now rather than killed in its game.
RemoveNow(o) == obj[o].gameid = None \/ ~running

\* Line 69: self.games[player["gameid"]]["game"].kill(client_id)
KillOutcome(o) ==
  IF obj[o].gameid = None THEN "KeyError"
  ELSE IF games[obj[o].gameid] \in {"absent", "empty"} THEN "KeyError"
  ELSE "ok"

\* Manager.disconnect, lines 46-70, run by a caller, by safe_stop (line 233)
\* or by a session worker (line 195).
Disconnect(t) ==
  LET r == th[t]
      p == r.dcid
      o == r.dplayer
      Go(l) == [r EXCEPT !.dpc = l]
  IN
  /\ r.dpc # "none"
  /\ msg' = NoMsg
  /\ \/ /\ r.dpc = "d51"
        /\ Step(t, IF ~Registered(p) THEN DiscEnd(r, "NotRegistered") ELSE Go("d54"))
        /\ UNCHANGED <<ncalls, running, players, obj, queues, games, gameid, gameover, tick, timers>>
     \/ /\ r.dpc = "d54"
        /\ Step(t, IF ~Registered(p) THEN DiscEnd(r, "KeyError")
                   ELSE [r EXCEPT !.dpc = "d57", !.dplayer = players[p]])
        /\ UNCHANGED <<ncalls, running, players, obj, queues, games, gameid, gameover, tick, timers>>
     \/ /\ r.dpc = "d57"
        /\ Step(t, IF obj[o].queue # NoQueue THEN Go("d59") ELSE Go("d62"))
        /\ UNCHANGED <<ncalls, running, players, obj, queues, games, gameid, gameover, tick, timers>>
     \/ /\ r.dpc = "d59"
        /\ LET out == RemoveOutcome(obj[o].queue, p) IN
             IF out = "ok"
             THEN /\ queues' = [queues EXCEPT ![obj[o].queue] = RemoveFirst(@, p)]
                  /\ Step(t, Go("d62"))
             ELSE /\ Step(t, DiscEnd(r, out))
                  /\ UNCHANGED queues
        /\ obj' = Sweep(obj, players, th')
        /\ UNCHANGED <<ncalls, running, players, games, gameid, gameover, tick, timers>>
     \/ /\ r.dpc = "d62"
        /\ Step(t, IF RemoveNow(o) THEN Go("d64") ELSE Go("d69"))
        /\ UNCHANGED <<ncalls, running, players, obj, queues, games, gameid, gameover, tick, timers>>
     \/ /\ r.dpc = "d64"
        /\ IF Registered(p)
           THEN LET e == Evict(obj, NewTh(t, DiscEnd(r, "ok")), p) IN
                /\ players' = [players EXCEPT ![p] = None]
                /\ th' = e.th
                /\ obj' = Sweep(e.obj, players', th')
           ELSE /\ Step(t, DiscEnd(r, "KeyError"))
                /\ UNCHANGED players
                /\ obj' = Sweep(obj, players, th')
        /\ UNCHANGED <<ncalls, running, queues, games, gameid, gameover, tick, timers>>
     \/ /\ r.dpc = "d69"
        /\ Step(t, IF KillOutcome(o) = "ok" THEN Go("d70") ELSE DiscEnd(r, KillOutcome(o)))
        /\ obj' = Sweep(obj, players, th')
        /\ UNCHANGED <<ncalls, running, players, queues, games, gameid, gameover, tick, timers>>
     \/ /\ r.dpc = "d70"
        /\ Step(t, DiscEnd(r, "ok"))
        /\ obj' = Sweep([obj EXCEPT ![o].alive = FALSE], players, th')
        /\ UNCHANGED <<ncalls, running, players, queues, games, gameid, gameover, tick, timers>>


\* (variant) line 106 with ">" for ">="
QueueFullStrict(q) == Len(queues[q]) > PLAYERS_PER_GAME

\* Line 106: the queue is full
QueueFull(q) == Len(queues[q]) >= PLAYERS_PER_GAME

\* (variant) line 116 with pop() for popleft(): the newest ids, newest first
DrainNewest(s) ==
  LET n == IF Len(s) < PLAYERS_PER_GAME THEN Len(s) ELSE PLAYERS_PER_GAME IN
  [taken |-> [k \in 1..n |-> s[Len(s) + 1 - k]], rest |-> SubSeq(s, 1, Len(s) - n),
   outcome |-> IF Len(s) < PLAYERS_PER_GAME THEN "IndexError" ELSE "ok"]

\* Line 116: [popleft() for n in range(PLAYERS_PER_GAME)] takes the oldest
\* PLAYERS_PER_GAME ids; on a shorter deque it takes them all and the next
\* popleft raises IndexError.
Drain(s) ==
  LET n == IF Len(s) < PLAYERS_PER_GAME THEN Len(s) ELSE PLAYERS_PER_GAME IN
  [taken |-> SubSeq(s, 1, n), rest |-> SubSeq(s, n + 1, Len(s)),
   outcome |-> IF Len(s) < PLAYERS_PER_GAME THEN "IndexError" ELSE "ok"]

\* (variant) line 86 never true
InGameNever(o) == FALSE

\* Line 86: player["gameid"] is not None
InGame(o) == obj[o].gameid # None

\* Manager.join_queue, lines 72-107
JoinQueue(c) ==
  LET r == th[c]
      p == r.cid
      o == r.player
      Go(l) == [r EXCEPT !.pc = l]
  IN
  /\ msg' = NoMsg
  /\ \/ /\ r.pc = "j75"
        /\ Step(c, IF ~running THEN Done(r, "ServerStopping") ELSE Go("j78"))
        /\ UNCHANGED <<ncalls, running, players, obj, queues, games, gameid, gameover, tick, timers>>
     \/ /\ r.pc = "j78"
        /\ Step(c, IF r.q \notin GAMES THEN Done(r, "InvalidQueue") ELSE Go("j81"))
        /\ UNCHANGED <<ncalls, running, players, obj, queues, games, gameid, gameover, tick, timers>>
     \/ /\ r.pc = "j81"
        /\ Step(c, IF ~Registered(p) THEN Done(r, "NotRegistered") ELSE Go("j84"))
        /\ UNCHANGED <<ncalls, running, players, obj, queues, games, gameid, gameover, tick, timers>>
     \/ /\ r.pc = "j84"
        /\ Step(c, IF ~Registered(p) THEN Done(r, "KeyError")
                   ELSE [r EXCEPT !.pc = "j86", !.player = players[p]])
        /\ UNCHANGED <<ncalls, running, players, obj, queues, games, gameid, gameover, tick, timers>>
     \/ /\ r.pc = "j86"
        /\ Step(c, IF InGame(o) THEN Done(r, "InGame") ELSE Go("j90"))
        /\ obj' = Sweep(obj, players, th')
        /\ UNCHANGED <<ncalls, running, players, queues, games, gameid, gameover, tick, timers>>
     \/ /\ r.pc = "j90"
        /\ Step(c, IF obj[o].queue # NoQueue THEN Go("j91") ELSE Go("j94"))
        /\ UNCHANGED <<ncalls, running, players, obj, queues, games, gameid, gameover, tick, timers>>
     \/ /\ r.pc = "j91"
        /\ LET out == RemoveOutcome(obj[o].queue, p) IN
             IF out = "ok"
             THEN /\ queues' = [queues EXCEPT ![obj[o].queue] = RemoveFirst(@, p)]
                  /\ Step(c, Go("j94"))
             ELSE /\ Step(c, Done(r, out))
                  /\ UNCHANGED queues
        /\ obj' = Sweep(obj, players, th')
        /\ UNCHANGED <<ncalls, running, players, games, gameid, gameover, tick, timers>>
     \/ /\ r.pc = "j94"
        \* the last use of the local `player`
        /\ Step(c, [r EXCEPT !.pc = "j97", !.player = 0])
        /\ obj' = Sweep([obj EXCEPT ![o].queue = r.q], players, th')
        /\ UNCHANGED <<ncalls, running, players, queues, games, gameid, gameover, tick, timers>>
     \/ /\ r.pc = "j97"
        /\ Step(c, IF queues[r.q] = Absent THEN Go("j98") ELSE Go("j101"))
        /\ UNCHANGED <<ncalls, running, players, obj, queues, games, gameid, gameover, tick, timers>>
     \/ /\ r.pc = "j98"
        /\ queues' = [queues EXCEPT ![r.q] = <<>>]
        /\ Step(c, Go("j101"))
        /\ UNCHANGED <<ncalls, running, players, obj, games, gameid, gameover, tick, timers>>
     \/ /\ r.pc = "j101"
        /\ queues' = [queues EXCEPT ![r.q] = Append(@, p)]
        /\ Step(c, Go("j106"))
        /\ UNCHANGED <<ncalls, running, players, obj, games, gameid, gameover, tick, timers>>
     \/ /\ r.pc = "j106"
        /\ Step(c, IF QueueFull(r.q) THEN Go("g113") ELSE Done(r, "ok"))
        /\ UNCHANGED <<ncalls, running, players, obj, queues, games, gameid, gameover, tick, timers>>

\* start_game, lines 126-130: the next player of the batch, then line 133
StartNext(r) ==
  IF r.i + 1 > Len(r.plist) THEN [r EXCEPT !.pc = "g133", !.i = 0]
  ELSE [r EXCEPT !.pc = "g127", !.i = r.i + 1]

\* Manager.start_game, lines 109-142, called from join_queue line 107.
\* The game object is built by the queue type's constructor (line 121); its
\* startup payload (line 122) is read from the new object only.
StartGame(c) ==
  LET r == th[c]
      g == r.gid
      pid == r.plist[r.i]
      Go(l) == [r EXCEPT !.pc = l]
  IN
  /\ r.op = "join_queue"
  /\ \/ /\ r.pc = "g113"
        /\ gameid' = gameid + 1
        /\ Step(c, [r EXCEPT !.pc = "g116", !.gid = gameid])
        /\ msg' = NoMsg
        /\ UNCHANGED <<ncalls, running, players, obj, queues, games, gameover, tick, timers>>
     \/ /\ r.pc = "g116"
        /\ LET d == Drain(queues[r.q]) IN
             /\ queues' = [queues EXCEPT ![r.q] = d.rest]
             /\ Step(c, IF d.outcome = "ok"
                        THEN [r EXCEPT !.pc = "g127", !.plist = d.taken, !.i = 1]
                        ELSE Done(r, d.outcome))
        /\ msg' = NoMsg
        /\ UNCHANGED <<ncalls, running, players, obj, games, gameid, gameover, tick, timers>>
     \/ /\ r.pc = "g127"
        /\ IF Registered(pid)
           THEN /\ obj' = [obj EXCEPT ![players[pid]].queue = NoQueue]
                /\ Step(c, Go("g128"))
           ELSE /\ Step(c, Done(r, "KeyError"))
                /\ UNCHANGED obj
        /\ msg' = NoMsg
        /\ UNCHANGED <<ncalls, running, players, queues, games, gameid, gameover, tick, timers>>
     \/ /\ r.pc = "g128"
        /\ IF Registered(pid)
           THEN /\ obj' = [obj EXCEPT ![players[pid]].gameid = g]
                /\ Step(c, Go("g129"))
           ELSE /\ Step(c, Done(r, "KeyError"))
                /\ UNCHANGED obj
        /\ msg' = NoMsg
        /\ UNCHANGED <<ncalls, running, players, queues, games, gameid, gameover, tick, timers>>
     \/ /\ r.pc = "g129"
        /\ Step(c, IF ~Registered(pid) THEN Done(r, "KeyError")
                   ELSE IF obj[players[pid]].alive THEN Go("g130")
                   ELSE StartNext(r))
        /\ msg' = NoMsg
        /\ UNCHANGED <<ncalls, running, players, obj, queues, games, gameid, gameover, tick, timers>>
     \/ /\ r.pc = "g130"
        /\ IF Registered(pid)
           THEN /\ msg' = [to |-> pid, kind |-> "startup", gid |-> g]
                /\ Step(c, StartNext(r))
           ELSE /\ msg' = NoMsg
                /\ Step(c, Done(r, "KeyError"))
        /\ UNCHANGED <<ncalls, running, players, obj, queues, games, gameid, gameover, tick, timers>>
     \/ /\ r.pc = "g133"
        /\ games' = [games EXCEPT ![g] = "empty"]
        /\ Step(c, Go("g134"))
        /\ msg' = NoMsg
        /\ UNCHANGED <<ncalls, running, players, obj, queues, gameid, gameover, tick, timers>>
     \/ /\ r.pc = "g134"
        /\ games' = [games EXCEPT ![g] = "game"]
        /\ Step(c, Go("g135"))
        /\ msg' = NoMsg
        /\ UNCHANGED <<ncalls, running, players, obj, queues, gameid, gameover, tick, timers>>
     \/ /\ r.pc = "g135"
        /\ games' = [games EXCEPT ![g] = "thread"]
        /\ th' = [th EXCEPT ![c] = Go("g142"),
                            ![W(g)] = [Fresh EXCEPT !.pc = "unstarted", !.op = "game_handler",
                                                   !.gid = g, !.plist = r.plist]]
        /\ msg' = NoMsg
        /\ UNCHANGED <<ncalls, running, players, obj, queues, gameid, gameover, tick, timers>>
     \/ /\ r.pc = "g142"
        /\ th' = [th EXCEPT ![c] = Fresh, ![W(g)] = [th[W(g)] EXCEPT !.pc = "w150"]]
        /\ msg' = NoMsg
        /\ UNCHANGED <<ncalls, running, players, obj, queues, games, gameid, gameover, tick, timers>>

\* Line 209: self.games[player["gameid"]]["game"]
GameLookup(o) ==
  IF obj[o].gameid = None THEN "KeyError"
  ELSE IF games[obj[o].gameid] \in {"absent", "empty"} THEN "KeyError"
  ELSE "ok"

\* (variant) line 210 never true
NotAnEventNever(e) == FALSE

\* Line 210: event not in events
NotAnEvent(e) == e \notin EVENTS

\* Manager.send_event, lines 200-215.  get_events() (line 210) returns the
\* game's fixed event set; the event name, which nothing reads before line
\* 211, is drawn there.  run_event (line 215) runs from "e215" to its return
\* at "e215r" on the caller's thread.
SendEvent(c) ==
  LET r == th[c]
      p == r.cid
      o == r.player
      Go(l) == [r EXCEPT !.pc = l]
  IN
  /\ msg' = NoMsg
  /\ \/ /\ r.pc = "e202"
        /\ Step(c, IF ~Registered(p) THEN Done(r, "NotRegistered") ELSE Go("e205"))
        /\ UNCHANGED <<ncalls, running, players, obj, queues, games, gameid, gameover, tick, timers>>
     \/ /\ r.pc = "e205"
        /\ Step(c, IF ~Registered(p) THEN Done(r, "KeyError")
                   ELSE [r EXCEPT !.pc = "e206", !.player = players[p]])
        /\ UNCHANGED <<ncalls, running, players, obj, queues, games, gameid, gameover, tick, timers>>
     \/ /\ r.pc = "e206"
        /\ Step(c, IF obj[o].gameid = None THEN Done(r, "NotInGame") ELSE Go("e209"))
        /\ obj' = Sweep(obj, players, th')
        /\ UNCHANGED <<ncalls, running, players, queues, games, gameid, gameover, tick, timers>>
     \/ /\ r.pc = "e209"
        /\ \E e \in EventArgs :
             Step(c, IF GameLookup(o) # "ok" THEN Done(r, GameLookup(o))
                     ELSE IF NotAnEvent(e) THEN Done([r EXCEPT !.ev = e], "InvalidEvent")
                     ELSE [r EXCEPT !.pc = "e214", !.gid = obj[o].gameid, !.player = 0,
                                    !.ev = e])
        /\ obj' = Sweep(obj, players, th')
        /\ UNCHANGED <<ncalls, running, players, queues, games, gameid, gameover, tick, timers>>
     \/ /\ r.pc = "e214"
        /\ Step(c, IF ~Registered(p) THEN Done(r, "KeyError") ELSE Go("e215"))
        /\ UNCHANGED <<ncalls, running, players, obj, queues, games, gameid, gameover, tick, timers>>
     \/ /\ r.pc = "e215"
        /\ Step(c, Go("e215r"))
        /\ UNCHANGED <<ncalls, running, players, obj, queues, games, gameid, gameover, tick, timers>>
     \/ /\ r.pc = "e215r"
        /\ Step(c, Done(r, "ok"))
        /\ UNCHANGED <<ncalls, running, players, obj, queues, games, gameid, gameover, tick, timers>>

\* Line 226: self.games[gid]["thread"].join() raises (and line 227 catches)
\* when the entry or its "thread" key is missing or the thread has not been
\* started; otherwise it blocks until the worker is over.
JoinOutcome(g) ==
  IF games[g] # "thread" THEN "KeyError"
  ELSE IF th[W(g)].pc = "unstarted" THEN "RuntimeError"
  ELSE "ok"

\* Manager.safe_stop, lines 217-237
SafeStop(c) ==
  LET r == th[c]
      Go(l) == [r EXCEPT !.pc = l]
      x == r.plist[r.i]
  IN
  /\ msg' = NoMsg
  /\ \/ /\ r.pc = "s222"
        /\ running' = FALSE
        /\ Step(c, Go("s223"))
        /\ UNCHANGED <<ncalls, players, obj, queues, games, gameid, gameover, tick, timers>>
     \/ /\ r.pc = "s223"
        /\ Step(c, StopNextGame([r EXCEPT !.plist = GameKeys(1), !.i = 0]))
        /\ UNCHANGED <<ncalls, running, players, obj, queues, games, gameid, gameover, tick, timers>>
     \/ /\ r.pc = "s224"
        /\ Step(c, IF games[x] # "absent" THEN Go("s226") ELSE StopNextGame(r))
        /\ UNCHANGED <<ncalls, running, players, obj, queues, games, gameid, gameover, tick, timers>>
     \/ /\ r.pc = "s226"
        /\ Step(c, IF JoinOutcome(x) = "ok" THEN Go("s226j") ELSE StopNextGame(r))
        /\ UNCHANGED <<ncalls, running, players, obj, queues, games, gameid, gameover, tick, timers>>
     \/ /\ r.pc = "s226j"
        /\ th[W(x)].pc \in Terminated
        /\ Step(c, StopNextGame(r))
        /\ UNCHANGED <<ncalls, running, players, obj, queues, games, gameid, gameover, tick, timers>>
     \/ /\ r.pc = "s230"
        /\ Step(c, StopNextPlayer([r EXCEPT !.plist = PlayerKeys(1), !.i = 0]))
        /\ UNCHANGED <<ncalls, running, players, obj, queues, games, gameid, gameover, tick, timers>>
     \/ /\ r.pc = "s231"
        /\ Step(c, IF Registered(x) THEN [r EXCEPT !.pc = "s233", !.dpc = "d51", !.dcid = x]
                   ELSE StopNextPlayer(r))
        /\ UNCHANGED <<ncalls, running, players, obj, queues, games, gameid, gameover, tick, timers>>


\* ------------------------------------------------------ the session worker
\* When the worker of session g is over, its Event, its timers and the
\* game's gameover flag are read by nobody any more: they are dropped.
Over(g) ==
  /\ tick' = [tick EXCEPT ![g] = FALSE]
  /\ timers' = [timers EXCEPT ![g] = 0]
  /\ gameover' = [gameover EXCEPT ![g] = FALSE]

\* (variant) line 150 with "while True"
KeepTickingForever == TRUE

\* Line 150: while self.running
KeepTicking == running

\* (variant) line 191 left out
ClearGameSkipped(ob, o) == ob

\* Line 191: self.players[pid]["gameid"] = None
ClearGame(ob, o) == [ob EXCEPT ![o].gameid = None]

\* (variant) line 176 left out
ClearTickSkipped(tk, g) == tk

\* Line 176: tick.clear()
ClearTick(tk, g) == [tk EXCEPT ![g] = FALSE]

\* game_handler, lines 162-164 (kind "status") and 182-184 (kind "error"):
\* after roster position r.i, the next position or the end of the loop.
LoopNext(r, after) ==
  IF r.i + 1 > Len(r.plist) THEN after
  ELSE [r EXCEPT !.i = r.i + 1]

\* Manager.game_handler, lines 144-198, the worker thread of session g.
\* game.main() runs from "w155" to its return at "w155r"; what it returns
\* (didsmthhappen), whether it ends the game (game.gameover) and whether it
\* raises are the game's choice.  When the thread is over its Event and its
\* timers are unreachable and are dropped.
GameHandler(g) ==
  LET t == W(g)
      r == th[t]
      pid == r.plist[r.i]
      Go(l) == [r EXCEPT !.pc = l]
  IN
  /\ \/ /\ r.pc = "w150"
        /\ Step(t, IF KeepTicking THEN Go("w152") ELSE Finally(r, FALSE))
        /\ msg' = NoMsg
        /\ UNCHANGED <<ncalls, running, players, obj, queues, games, gameid, gameover, tick, timers>>
     \/ /\ r.pc = "w152"
        /\ timers' = [timers EXCEPT ![g] = @ + 1]
        /\ Step(t, Go("w155"))
        /\ msg' = NoMsg
        /\ UNCHANGED <<ncalls, running, players, obj, queues, games, gameid, gameover, tick>>
     \/ /\ r.pc = "w155"
        /\ Step(t, Go("w155r"))
        /\ msg' = NoMsg
        /\ UNCHANGED <<ncalls, running, players, obj, queues, games, gameid, gameover, tick, timers>>
     \/ /\ r.pc = "w155r"
        /\ \E outcome \in {"raise", "quiet", "status"}, over \in BOOLEAN :
             /\ gameover' = [gameover EXCEPT ![g] = @ \/ (over /\ outcome # "raise")]
             /\ Step(t, CASE outcome = "raise" -> Except(r)
                          [] outcome = "quiet" -> Go("w167")
                          [] outcome = "status" -> [r EXCEPT !.pc = "w163", !.i = 1])
        /\ msg' = NoMsg
        /\ UNCHANGED <<ncalls, running, players, obj, queues, games, gameid, tick, timers>>
     \/ /\ r.pc = "w163"
        /\ Step(t, IF ~Registered(pid) THEN Except(r)
                   ELSE IF obj[players[pid]].alive THEN Go("w164")
                   ELSE LoopNext(r, [r EXCEPT !.pc = "w167", !.i = 0]))
        /\ msg' = NoMsg
        /\ UNCHANGED <<ncalls, running, players, obj, queues, games, gameid, gameover, tick, timers>>
     \/ /\ r.pc = "w164"
        /\ IF Registered(pid)
           THEN /\ msg' = [to |-> pid, kind |-> "status", gid |-> g]
                /\ Step(t, LoopNext(Go("w163"), [r EXCEPT !.pc = "w167", !.i = 0]))
           ELSE /\ msg' = NoMsg
                /\ Step(t, Except(r))
        /\ UNCHANGED <<ncalls, running, players, obj, queues, games, gameid, gameover, tick, timers>>
     \/ /\ r.pc = "w167"
        /\ Step(t, IF gameover[g] THEN Finally(r, FALSE) ELSE Go("w175"))
        /\ msg' = NoMsg
        /\ UNCHANGED <<ncalls, running, players, obj, queues, games, gameid, gameover, tick, timers>>
     \/ /\ r.pc = "w175"
        /\ tick[g]
        /\ Step(t, Go("w176"))
        /\ msg' = NoMsg
        /\ UNCHANGED <<ncalls, running, players, obj, queues, games, gameid, gameover, tick, timers>>
     \/ /\ r.pc = "w176"
        /\ tick' = ClearTick(tick, g)
        /\ Step(t, Go("w150"))
        /\ msg' = NoMsg
        /\ UNCHANGED <<ncalls, running, players, obj, queues, games, gameid, gameover, timers>>
     \/ /\ r.pc = "w183"
        /\ Step(t, IF ~Registered(pid) THEN Finally(r, TRUE)
                   ELSE IF obj[players[pid]].alive THEN Go("w184")
                   ELSE LoopNext(r, Finally(r, FALSE)))
        /\ msg' = NoMsg
        /\ UNCHANGED <<ncalls, running, players, obj, queues, games, gameid, gameover, tick, timers>>
     \/ /\ r.pc = "w184"
        /\ IF Registered(pid)
           THEN /\ msg' = [to |-> pid, kind |-> "error", gid |-> g]
                /\ Step(t, LoopNext(Go("w183"), Finally(r, FALSE)))
           ELSE /\ msg' = NoMsg
                /\ Step(t, Finally(r, TRUE))
        /\ UNCHANGED <<ncalls, running, players, obj, queues, games, gameid, gameover, tick, timers>>
     \/ /\ r.pc = "w191"
        /\ IF Registered(pid)
           THEN /\ obj' = ClearGame(obj, players[pid])
                /\ Step(t, Go("w194"))
           ELSE /\ Step(t, Die(r))
                /\ UNCHANGED obj
        /\ msg' = NoMsg
        /\ UNCHANGED <<ncalls, running, players, queues, games, gameid, gameover, tick, timers>>
     \/ /\ r.pc = "w194"
        /\ Step(t, IF ~Registered(pid) THEN Die(r)
                   ELSE IF obj[players[pid]].alive THEN FinallyNext(r)
                   ELSE [r EXCEPT !.pc = "w195", !.dpc = "d51", !.dcid = pid])
        /\ msg' = NoMsg
        /\ UNCHANGED <<ncalls, running, players, obj, queues, games, gameid, gameover, tick, timers>>
     \/ /\ r.pc = "w198"
        /\ games' = [games EXCEPT ![g] = "absent"]
        /\ Step(t, [r EXCEPT !.pc = IF r.flag THEN "dead" ELSE "done", !.flag = FALSE,
                               !.res = "none"])
        /\ Over(g)
        /\ msg' = NoMsg
        /\ UNCHANGED <<ncalls, running, players, obj, queues, gameid>>
     \/ /\ r.pc = "raise"
        /\ Step(t, [r EXCEPT !.pc = "dead", !.res = "none"])
        /\ Over(g)
        /\ msg' = NoMsg
        /\ UNCHANGED <<ncalls, running, players, obj, queues, games, gameid>>

\* The Timer armed at line 152 fires: tick.set()
TimerFire(g) ==
  /\ timers[g] > 0
  /\ timers' = [timers EXCEPT ![g] = @ - 1]
  /\ tick' = [tick EXCEPT ![g] = TRUE]
  /\ msg' = NoMsg
  /\ UNCHANGED <<ncalls, running, players, obj, queues, games, gameid, gameover, th>>

\* ---------------------------------------------------------- specification
AdmissionOps == {"connect", "disconnect", "join_queue"}
AllOps == AdmissionOps \cup {"send_event", "safe_stop"}

\* Any number of admission calls (connect, disconnect, join_queue) in
\* progress at once, interleaved with each other and with the workers.
Next ==
  \/ \E c \in Callers : Call(c, AdmissionOps, MaxCalls) \/ Recover(c)
  \/ \E c \in Callers : Connect(c) \/ JoinQueue(c) \/ StartGame(c)
  \/ \E t \in Threads : Disconnect(t)
  \/ \E g \in Gids : GameHandler(g) \/ TimerFire(g)

Spec == Init /\ [][Next]_vars

\* One call of any operation at a time, interleaved with the workers.
SeqNext ==
  \/ Call(C(1), AllOps, MaxSeqCalls) \/ Recover(C(1))
  \/ Connect(C(1)) \/ JoinQueue(C(1)) \/ StartGame(C(1))
  \/ SendEvent(C(1)) \/ SafeStop(C(1))
  \/ \E t \in {C(1)} \cup Workers : Disconnect(t)
  \/ \E g \in Gids : GameHandler(g) \/ TimerFire(g)

SeqSpec == Init /\ [][SeqNext]_vars

\* The same, with the scheduling the platform provides: a thread that can
\* take a step eventually takes it (the caller inside safe_stop, every
\* worker), and an armed Timer eventually fires.
Fairness ==
  /\ WF_vars(SafeStop(C(1)))
  /\ WF_vars(Disconnect(C(1)))
  /\ \A g \in Gids : /\ WF_vars(GameHandler(g))
                      /\ WF_vars(Disconnect(W(g)))
                      /\ WF_vars(TimerFire(g))

FairSpec == SeqSpec /\ Fairness

\* safe_stop called while connect / join_queue calls are in progress on
\* another caller context, interleaved with the workers.
StopOps == {"connect", "join_queue", "safe_stop"}

StopNext ==
  \/ \E c \in Callers : Call(c, StopOps, MaxStopCalls) \/ Recover(c)
  \/ \E c \in Callers : Connect(c) \/ JoinQueue(c) \/ StartGame(c) \/ SafeStop(c)
  \/ \E t \in Threads : Disconnect(t)
  \/ \E g \in Gids : GameHandler(g) \/ TimerFire(g)

StopSpec == Init /\ [][StopNext]_vars

\* ------------------------------------------------------------- properties
\* The roster of session g (the `players` argument of its worker, line 137)
Roster(g) == th[W(g)].plist
Member(g, p) == InSeq(Roster(g), p)

\* The player dict registered under client id p
Player(p) == obj[players[p]]

\* No join_queue / start_game call is mid-execution
AtRest == \A c \in Callers : th[c].op # "join_queue" \/ th[c].pc = "fault"

\* No session has been created yet
NoSession == \A g \in Gids : th[W(g)].pc = "nothread" /\ games[g] = "absent"

\* C1: in every reachable state, whatever the interleaving of connect,
\* disconnect and join_queue calls and session workers, no registered player
\* has both its queue field and its gameid field set.
C1_QueueXorGame ==
  \A p \in Ids :
    Registered(p) => ~(Player(p).queue # NoQueue /\ Player(p).gameid # None)

\* C2: with one call at a time and no session around, the join_queue call
\* that fills a queue drains exactly the PLAYERS_PER_GAME distinct ids that
\* joined, oldest first and the caller's own id last, leaves the queue empty,
\* and starts exactly one session, whose roster is that batch.
C2_ExactDrain ==
  [][/\ (th[C(1)].pc = "g116" /\ NoSession /\ th'[C(1)] # th[C(1)])
        => LET s == queues[th[C(1)].q] IN
           /\ Len(s) = PLAYERS_PER_GAME
           /\ \A i, j \in 1..Len(s) : i # j => s[i] # s[j]
           /\ s[Len(s)] = th[C(1)].cid
           /\ th'[C(1)].pc = "g127"
           /\ th'[C(1)].plist = s
           /\ queues'[th[C(1)].q] = <<>>
     /\ (th[C(1)].pc = "g142" /\ (\A h \in Gids \ {th[C(1)].gid} : th[W(h)].pc = "nothread"))
        => LET g == th[C(1)].gid IN
           /\ th'[W(g)].pc = "w150"
           /\ th'[W(g)].plist = th[C(1)].plist
           /\ gameid = g + 1
           /\ \A h \in Gids : games[h] # "absent" <=> h = g
           /\ queues[th[C(1)].q] = <<>>]_vars

C2_Witness ==
  /\ th[C(1)].pc = "idle"
  /\ th[W(1)].pc = "w150"
  /\ Roster(1) = <<2, 1>>
  /\ gameid = 2
  /\ queues["duel"] = <<>>

\* C3: whatever the interleaving of concurrent join_queue calls, every
\* start_game pops PLAYERS_PER_GAME ids that are in the queue (never from an
\* empty queue), and they are distinct.
C3_AtomicDrain ==
  [][\A c \in Callers :
       (th[c].pc = "g116" /\ th'[c] # th[c])
       => LET s == queues[th[c].q] IN
          /\ Len(s) >= PLAYERS_PER_GAME
          /\ \A i, j \in 1..PLAYERS_PER_GAME : i # j => s[i] # s[j]]_vars

\* C4: in every reachable state with no join_queue / start_game call
\* mid-execution, whatever the interleaving of connect, join_queue and
\* disconnect calls, every queue is shorter than PLAYERS_PER_GAME.
C4_BelowBatchAtRest ==
  AtRest => \A q \in GAMES : queues[q] # Absent => Len(queues[q]) < PLAYERS_PER_GAME

C4_Witness ==
  /\ AtRest
  /\ games[1] = "thread"
  /\ queues["duel"] = <<>>

\* C5: while a session is in the session table every member of its roster
\* is a key of the registry; and once its worker has finished the cleanup, a
\* member that was disconnected during the session (alive = false) is no
\* longer registered.
C5_KeptUntilCleanupDone ==
  \A g \in Gids, p \in Ids :
    Member(g, p) =>
      /\ games[g] # "absent" => Registered(p)
      /\ (th[W(g)].pc = "done" /\ Registered(p) /\ Player(p).gameid = None)
           => Player(p).alive

\* C6: whenever a session's worker has terminated, the session is absent
\* from the session table and no registered player has its id as gameid.
C6_TerminatedSessionGone ==
  \A g \in Gids :
    th[W(g)].pc \in Terminated =>
      /\ games[g] = "absent"
      /\ \A p \in Ids : Registered(p) => Player(p).gameid # g

\* C7: when safe_stop returns, no other caller operation having run during
\* the call, the session table, every queue and the registry are empty.
C7_StopDrainsAll ==
  [][(th[C(1)].op = "safe_stop" /\ th'[C(1)].pc = "idle")
       => /\ \A g \in Gids : games'[g] = "absent"
          /\ \A q \in GAMES : queues'[q] \in {Absent, <<>>}
          /\ \A p \in Ids : players'[p] = None]_vars

\* C8: once running is false, every session worker eventually is over, and
\* a safe_stop call eventually returns, also for a game that never reports
\* game-over (workers and timers being scheduled).
C8_ShutdownTerminates ==
  /\ (~running) ~> (\A g \in Gids : th[W(g)].pc \in {"nothread"} \cup Terminated)
  /\ (th[C(1)].op = "safe_stop") ~> (th[C(1)].pc = "idle")

C8_Witness ==
  /\ ~running
  /\ th[C(1)].op = "safe_stop"
  /\ th[C(1)].pc = "s230"
  /\ th[W(1)].pc = "done"
  /\ Registered(1)

\* C9: once the worker of a session has finished its cleanup, no startup,
\* status or error message of that session is delivered any more, no
\* registered player has that session's id as gameid, and a send_event call
\* of a player all of whose sessions have ended fails with NotInGame at
\* line 206.
C9_EndedSessionSilent ==
  /\ [](\A g \in Gids :
          th[W(g)].pc = "done" =>
            /\ msg.gid # g
            /\ \A p \in Ids : (Member(g, p) /\ Registered(p)) => Player(p).gameid # g)
  /\ [][(/\ th[C(1)].pc = "e206"
         /\ th'[C(1)] # th[C(1)]
         /\ \E g \in Gids : Member(g, th[C(1)].cid)
         /\ \A g \in Gids : Member(g, th[C(1)].cid) => th[W(g)].pc = "done")
        => th'[C(1)] = Fresh]_vars

C9_Witness ==
  /\ th[W(1)].pc = "done"
  /\ Member(1, 1)
  /\ Registered(1)
  /\ th[C(1)].op = "send_event"
  /\ th[C(1)].cid = 1
  /\ th[C(1)].pc = "e206"

\* C10: an execution of the game's run_event (line 215) never overlaps an
\* execution of the same game's main() (line 155).
C10_EventsSerialized ==
  \A c \in Callers, g \in Gids :
    ~(th[c].pc = "e215r" /\ th[c].gid = g /\ th[W(g)].pc = "w155r")

\* The registry, the queues and the session table, and every registered
\* player's dict, are the same after the step as before.
TablesKept ==
  /\ players' = players
  /\ queues' = queues
  /\ games' = games
  /\ \A p \in Ids : Registered(p) => obj'[players[p]] = obj[players[p]]

\* C11: join_queue fails with ServerStopping exactly when running is false
\* (line 75), else with InvalidQueue for a queue name not configured (line
\* 78), else with NotRegistered for an unknown identity (line 81), else with
\* InGame for a player whose gameid is set (line 86); up to and including
\* the failing test the call leaves the registry, the queues and the session
\* table as they were.
C11_JoinRejected ==
  [][LET r == th[C(1)] IN
     (r.op = "join_queue" /\ r.pc \in {"j75", "j78", "j81", "j84", "j86"}
        /\ th'[C(1)].pc # r.pc)
     => /\ TablesKept
        /\ r.pc = "j75" => (th'[C(1)] = Fresh <=> ~running)
        /\ r.pc = "j78" => (th'[C(1)] = Fresh <=> r.q \notin GAMES)
        /\ r.pc = "j81" => (th'[C(1)] = Fresh <=> players[r.cid] = None)
        /\ r.pc = "j86" => (th'[C(1)] = Fresh <=> obj[r.player].gameid # None)]_vars

C11_Witness ==
  /\ th[C(1)].op = "join_queue"
  /\ th[C(1)].pc = "j86"
  /\ obj[th[C(1)].player].gameid # None
  /\ Registered(th[C(1)].cid)

\* C12: send_event fails with NotRegistered exactly for an unknown identity
\* (line 202), else with NotInGame exactly for a player whose gameid is None
\* (line 206), and with InvalidEvent for an event name that get_events()
\* does not return (line 210): run_event (line 215) is only ever entered
\* with a valid event name after the three tests, and no step of the call up
\* to the failing test changes the registry, a queue, the session table, a
\* registered player's dict or the game's state.
C12_EventRejected ==
  [][LET r == th[C(1)] IN
     (r.op = "send_event" /\ th'[C(1)].pc # r.pc)
     => /\ r.pc \in {"e202", "e205", "e206", "e209"} => TablesKept /\ gameover' = gameover
        /\ r.pc = "e202" => (th'[C(1)] = Fresh <=> players[r.cid] = None)
        /\ r.pc = "e206" => (th'[C(1)] = Fresh <=> obj[r.player].gameid = None)
        /\ r.pc = "e209" => \/ th'[C(1)].pc \in {"idle", "fault"}
                            \/ th'[C(1)].pc = "e214" /\ th'[C(1)].ev \in EVENTS
        /\ th'[C(1)].pc = "e215r" => r.pc = "e215" /\ r.ev \in EVENTS]_vars

C12_Witness ==
  /\ th[C(1)].op = "send_event"
  /\ th[C(1)].pc = "e209"
  /\ Registered(th[C(1)].cid)
  /\ games[obj[th[C(1)].player].gameid] = "thread"

\* The step is one of session g's worker (its position changes).
WorkerStep(g) ==
  \/ th'[W(g)].pc # th[W(g)].pc
  \/ th'[W(g)].dpc # th[W(g)].dpc
  \/ th'[W(g)].i # th[W(g)].i

\* Session g's worker is handling a fault of a tick (lines 178-198).
Faulted(g) == th[W(g)].res = "Exception"

\* C13: from the moment a tick of session g raises until g's worker is
\* over, the worker changes no registry entry and no player dict other than
\* those of g's roster, changes the session table only by removing g,
\* modifies no queue, sends only error messages and only to members of g's
\* roster, and leaves every other session's worker, timers and game alone.
C13_FaultConfined ==
  [][\A g \in Gids :
       (Faulted(g) /\ WorkerStep(g))
       => /\ \A p \in Ids \ {Roster(g)[k] : k \in 1..Len(Roster(g))} :
               /\ players'[p] = players[p]
               /\ Registered(p) => obj'[players[p]] = obj[players[p]]
          /\ \A h \in Gids \ {g} : games'[h] = games[h]
          /\ games'[g] \in {games[g], "absent"}
          /\ queues' = queues
          /\ msg'.kind # "none" => msg'.kind = "error" /\ Member(g, msg'.to)
          /\ \A h \in Gids \ {g} :
               /\ th'[W(h)].pc = th[W(h)].pc
               /\ th'[W(h)].dpc = th[W(h)].dpc
               /\ gameover'[h] = gameover[h]
               /\ tick'[h] = tick[h]
               /\ timers'[h] = timers[h]]_vars

\* C14: when a tick reports that something happened, the delivery loop
\* (lines 162-164) visits every member of the roster in turn, sends the
\* status to the member when its alive flag is true at line 163 and skips it
\* when the flag is false, and is not cut short by a failing lookup; a
\* status message never goes to a player outside the roster.
C14_StatusToAlive ==
  /\ [](msg.kind = "status" => Member(msg.gid, msg.to))
  /\ [][\A g \in Gids :
          (th[W(g)].pc \in {"w163", "w164"} /\ WorkerStep(g))
          => LET r == th[W(g)]
                 pid == r.plist[r.i]
                 last == r.i = Len(r.plist)
                 onward == IF last THEN th'[W(g)].pc = "w167"
                           ELSE th'[W(g)].pc = "w163" /\ th'[W(g)].i = r.i + 1
             IN /\ Registered(pid)
                /\ (r.pc = "w163" /\ Player(pid).alive)
                     => th'[W(g)].pc = "w164" /\ th'[W(g)].i = r.i /\ msg' = NoMsg
                /\ (r.pc = "w163" /\ ~Player(pid).alive) => onward /\ msg' = NoMsg
                /\ r.pc = "w164"
                     => onward /\ msg' = [to |-> pid, kind |-> "status", gid |-> g]]_vars

C14_Witness ==
  /\ th[W(1)].pc = "w163"
  /\ th[W(1)].i = 2
  /\ msg = [to |-> Roster(1)[1], kind |-> "status", gid |-> 1]
  /\ Registered(Roster(1)[2])
  /\ ~Player(Roster(1)[2]).alive

\* C15: running never becomes true again; once it is false, the next
\* evaluation of the loop condition (line 150) sends the worker to its
\* cleanup; a call of main() (line 155) is begun only after a loop-condition
\* check that found running true (line 150, then line 152), so a worker
\* begins at most one call of main() after the flag changed, and that tick
\* is not cut short (the loop condition is evaluated only after line 176 or
\* at the start of the thread).
C15_OneMoreTick ==
  [][/\ ~running => ~running'
     /\ \A g \in Gids :
          WorkerStep(g)
          => /\ (th[W(g)].pc = "w150" /\ ~running) => th'[W(g)].pc = "w191"
             /\ th'[W(g)].pc = "w152" => th[W(g)].pc = "w150" /\ running
             /\ th'[W(g)].pc = "w155" => th[W(g)].pc = "w152"
             /\ th'[W(g)].pc = "w150" => th[W(g)].pc \in {"w176", "unstarted"}]_vars

C15_Witness ==
  /\ ~running
  /\ th[C(1)].pc = "s226j"
  /\ th[W(1)].pc = "w164"

\* C16: within one session at most one armed timer is pending at any time;
\* when the worker is about to start a tick (lines 150, 152) every timer it
\* armed has fired and the tick event is clear; during a tick exactly one
\* of "its timer is pending" and "the event is set" holds, so the wait of
\* line 175 returns for the timer of this tick only and the ticks started
\* never exceed the fired timers plus one.
C16_TickPacing ==
  \A g \in Gids :
    /\ timers[g] <= 1
    /\ th[W(g)].pc \in {"w150", "w152"} => timers[g] = 0 /\ ~tick[g]
    /\ th[W(g)].pc \in {"w155", "w155r", "w163", "w164", "w167", "w175"}
         => (timers[g] = 1) # tick[g]
    /\ th[W(g)].pc = "w176" => timers[g] = 0 /\ tick[g]

C16_Witness ==
  /\ th[W(1)].pc = "w164"
  /\ tick[1]
  /\ timers[1] = 0
  /\ th[W(1)].i = 2

\* C17: no call of connect, disconnect, join_queue or send_event ends with
\* an error outside the taxonomy (KeyError, ValueError, IndexError).
C17_OnlyTaxonomyErrors ==
  \A c \in Callers :
    th[c].pc = "fault"
    => th[c].op \notin {"connect", "disconnect", "join_queue", "send_event"}

C17_Witness ==
  /\ th[C(1)].pc = "fault"
  /\ th[C(1)].op = "send_event"
  /\ th[C(1)].res = "KeyError"

\* Session g is in the session table with its game object (lines 133-134)
InTable(g) == games[g] \in {"game", "thread"}

\* C18: every registered player whose gameid is g finds g in the session
\* table, with its game object, and is in g's roster; no player id is in
\* the rosters of two sessions that are both in the session table.
C18_NoDanglingSession ==
  /\ \A p \in Ids :
       (Registered(p) /\ Player(p).gameid # None)
       => InTable(Player(p).gameid) /\ Member(Player(p).gameid, p)
  /\ \A p \in Ids : \A g, h \in Gids :
       (g # h /\ InTable(g) /\ InTable(h)) => ~(Member(g, p) /\ Member(h, p))

C18_Witness ==
  /\ th[C(1)].op = "join_queue"
  /\ th[C(1)].pc = "g129"
  /\ th[C(1)].i = 1
  /\ Registered(th[C(1)].plist[1])
  /\ Player(th[C(1)].plist[1]).gameid = th[C(1)].gid
  /\ ~InTable(th[C(1)].gid)

\* No caller operation is mid-execution
CallersIdle == \A c \in Callers : th[c].pc = "idle"

\* C19: when no caller operation is mid-execution, an id is in queue q
\* exactly when it is registered with its queue field equal to q, and no
\* id occurs twice in the queues.
C19_QueueMatchesRegistry ==
  CallersIdle
  => \A p \in Ids : \A q \in GAMES :
       /\ InSeq(queues[q], p) <=> (Registered(p) /\ Player(p).queue = q)
       /\ Cardinality({k \in 1..Len(queues[q]) : queues[q][k] = p}) <= 1

C19_Witness ==
  /\ CallersIdle
  /\ NoSession
  /\ Registered(1)
  /\ Player(1).queue = NoQueue
  /\ InSeq(queues["duel"], 1)

\* Occurrences of id p in the deque s
Count(s, p) == Cardinality({k \in 1..Len(s) : s[k] = p})

\* C20: once running is false, no step adds or replaces a registry entry,
\* appends an id to a queue, puts a session into the session table or
\* creates or starts a worker thread.
C20_NoAdmissionAfterStop ==
  [][~running
     => /\ \A p \in Ids : players'[p] \in {players[p], None}
        /\ \A q \in GAMES : \A p \in Ids : Count(queues'[q], p) <= Count(queues[q], p)
        /\ \A g \in Gids :
             /\ games[g] = "absent" => games'[g] = "absent"
             /\ th[W(g)].pc \in {"nothread", "unstarted"} => th'[W(g)].pc = th[W(g)].pc]_vars

C20_Witness ==
  /\ ~running
  /\ \E c \in Callers : th[c].op = "safe_stop" /\ th[c].pc = "s230"
  /\ \E c \in Callers : th[c].op = "join_queue" /\ th[c].pc = "g142"

====
